---- MODULE Spec2Model ----
(***************************************************************************)
(* Sparse-set component Pool of src/main.rs (struct Pool<T>).              *)
(*                                                                         *)
(* Rust vectors are 0-based; a Vec is modelled as a TLA+ sequence and      *)
(* element k of the Vec is element k + 1 of the sequence (see At / Set).   *)
(* Option<usize> is modelled as None (-1) or the number itself.            *)
(* A Rust panic (out-of-bounds index, swap_remove past the end) ends the   *)
(* run: the action sets panicked and keeps the writes made before it.      *)
(***************************************************************************)
EXTENDS Integers, Sequences, FiniteSets, TLC

\* ---------------------------------------------------------------- bounds
\* Largest entity handle the callers pass (handles are 0..MaxHandle).
MaxHandle == 2
\* Component values are 1..MaxValue (TestComponent { value }).
MaxValue == 2
\* Number of mutating calls (new_entity, reserve_up_to, add_component,
\* remove) made on the pool in one run.
MaxCalls == 6
\* Number of mutating calls (new_component, reserve_up_to, add_component,
\* remove_component, remove_entity) made on the store in one run.
MaxStoreCalls == 4

EntityId == 0..MaxHandle
Component == 1..MaxValue
\* The component types the callers use (the TypeId keys of the AnyMap).
Types == {"A", "B"}

\* Option::None
None == -1
\* Option::Some(x)
Some(x) == x

\* ------------------------------------------------------------ Vec helpers
\* v[k] for a 0-based index k that is in range
At(v, k) == v[k + 1]
\* v[k] = x for a 0-based index k that is in range
Set(v, k, x) == [v EXCEPT ![k + 1] = x]
\* Vec::get(k).is_some(): k is inside the vector
InBounds(v, k) == k >= 0 /\ k < Len(v)
\* Vec::swap_remove(k), k in range: position k takes the last element and
\* the vector shrinks by one
swap_remove(v, k) ==
    IF k + 1 = Len(v)
    THEN SubSeq(v, 1, Len(v) - 1)
    ELSE SubSeq(v, 1, k) \o <<v[Len(v)]>> \o SubSeq(v, k + 2, Len(v) - 1)
\* Vec::resize(n, x) for n >= len: pads with x
resize(v, n, x) == v \o [j \in 1..(n - Len(v)) |-> x]
\* the elements of a vector
Range(v) == {v[j] : j \in 1..Len(v)}

\* ---------------------------------------------------------------- Pool
\* Pool::new()
PoolNew == [entity_indices |-> <<>>, entity_list |-> <<>>, component_list |-> <<>>]

\* The outcome of a call on a pool: the pool afterwards, whether the call
\* panicked, and the returned value (None where there is none).
Outcome(p, pan, r) == [pool |-> p, panic |-> pan, ret |-> r]

\* Pool::new_entity returning the length after the push
new_entity_returns_len(p) ==
    Outcome([p EXCEPT !.entity_indices = Append(@, None)], FALSE, Len(p.entity_indices) + 1)

\* Pool::new_entity
new_entity(p) ==
    Outcome([p EXCEPT !.entity_indices = Append(@, None)], FALSE, Len(p.entity_indices))

\* Pool::reserve_up_to without the early return: Vec::resize cuts a longer
\* sparse layer down to entityId + 1 slots
reserve_up_to_truncates(p, entityId) ==
    IF entityId < Len(p.entity_indices)
    THEN Outcome([p EXCEPT !.entity_indices = SubSeq(@, 1, entityId + 1)], FALSE, None)
    ELSE Outcome([p EXCEPT !.entity_indices = resize(@, entityId + 1, None)], FALSE, None)

\* Pool::reserve_up_to allocating one slot too many
reserve_up_to_over(p, entityId) ==
    IF entityId < Len(p.entity_indices)
    THEN Outcome(p, FALSE, None)
    ELSE Outcome([p EXCEPT !.entity_indices = resize(@, entityId + 2, None)], FALSE, None)

\* Pool::reserve_up_to filling the new slots with Some(0) instead of None
reserve_up_to_fills(p, entityId) ==
    IF entityId < Len(p.entity_indices)
    THEN Outcome(p, FALSE, None)
    ELSE Outcome([p EXCEPT !.entity_indices = resize(@, entityId + 1, Some(0))], FALSE, None)

\* Pool::reserve_up_to
reserve_up_to(p, entityId) ==
    IF entityId < Len(p.entity_indices)
    THEN Outcome(p, FALSE, None)
    ELSE Outcome([p EXCEPT !.entity_indices = resize(@, entityId + 1, None)], FALSE, None)

\* Pool::add_component
add_component(p, entityId, component) ==
    LET q == IF entityId >= Len(p.entity_indices) THEN reserve_up_to(p, entityId).pool ELSE p
        index == At(q.entity_indices, entityId)
    IN  IF index # None
        THEN IF ~InBounds(q.entity_list, index)
             THEN Outcome(q, TRUE, None)
             ELSE LET q1 == [q EXCEPT !.entity_list = Set(@, index, entityId)]
                  IN  IF ~InBounds(q.component_list, index)
                      THEN Outcome(q1, TRUE, None)
                      ELSE Outcome([q1 EXCEPT !.component_list = Set(@, index, component)],
                                   FALSE, None)
        ELSE Outcome([entity_indices |-> Set(q.entity_indices, entityId, Some(Len(q.entity_list))),
                      entity_list |-> Append(q.entity_list, entityId),
                      component_list |-> Append(q.component_list, component)],
                     FALSE, None)

\* Pool::remove with the swap_remove of component_list left out
remove_keeps_component(p, entity_id) ==
    IF InBounds(p.entity_indices, entity_id) /\ At(p.entity_indices, entity_id) # None
    THEN LET entity_index_copy == At(p.entity_indices, entity_id)
             q == [p EXCEPT !.entity_indices = Set(@, entity_id, None)]
         IN  IF ~InBounds(q.entity_list, entity_index_copy)
             THEN Outcome(q, TRUE, None)
             ELSE LET new_entity_id == At(q.entity_list, entity_index_copy)
                      q1 == [q EXCEPT !.entity_list = swap_remove(@, entity_index_copy)]
                  IN  IF InBounds(q1.entity_indices, new_entity_id)
                      THEN Outcome([q1 EXCEPT !.entity_indices =
                                       Set(@, new_entity_id, Some(new_entity_id))],
                                   FALSE, None)
                      ELSE Outcome(q1, FALSE, None)
    ELSE Outcome(p, FALSE, None)

\* Pool::remove (impl PoolRemoval for Pool<T>).  Vec::swap_remove returns
\* the element it REMOVED, so new_entity_id is the handle that was stored
\* at entity_index_copy, not the handle moved there from the end.
remove(p, entity_id) ==
    IF InBounds(p.entity_indices, entity_id) /\ At(p.entity_indices, entity_id) # None
    THEN LET entity_index_copy == At(p.entity_indices, entity_id)
             q == [p EXCEPT !.entity_indices = Set(@, entity_id, None)]
         IN  IF ~InBounds(q.entity_list, entity_index_copy)
             THEN Outcome(q, TRUE, None)
             ELSE LET new_entity_id == At(q.entity_list, entity_index_copy)
                      q1 == [q EXCEPT !.entity_list = swap_remove(@, entity_index_copy)]
                  IN  IF ~InBounds(q1.component_list, entity_index_copy)
                      THEN Outcome(q1, TRUE, None)
                      ELSE LET q2 == [q1 EXCEPT !.component_list =
                                          swap_remove(@, entity_index_copy)]
                           IN  IF InBounds(q2.entity_indices, new_entity_id)
                               THEN Outcome([q2 EXCEPT !.entity_indices =
                                                Set(@, new_entity_id, Some(new_entity_id))],
                                            FALSE, None)
                               ELSE Outcome(q2, FALSE, None)
    ELSE Outcome(p, FALSE, None)

\* Pool::len
len(p) == Len(p.entity_list)

\* Pool::get: None for a handle outside the sparse layer or with an empty
\* slot, otherwise component_list[slot], which panics when the slot is
\* outside component_list
get(p, entity_id) ==
    IF ~InBounds(p.entity_indices, entity_id)
    THEN Outcome(p, FALSE, None)
    ELSE IF At(p.entity_indices, entity_id) = None
    THEN Outcome(p, FALSE, None)
    ELSE IF ~InBounds(p.component_list, At(p.entity_indices, entity_id))
    THEN Outcome(p, TRUE, None)
    ELSE Outcome(p, FALSE, Some(At(p.component_list, At(p.entity_indices, entity_id))))

\* Pool::get_mut: the same lookup through a mutable borrow
get_mut(p, entity_id) ==
    IF ~InBounds(p.entity_indices, entity_id)
    THEN Outcome(p, FALSE, None)
    ELSE IF At(p.entity_indices, entity_id) = None
    THEN Outcome(p, FALSE, None)
    ELSE IF ~InBounds(p.component_list, At(p.entity_indices, entity_id))
    THEN Outcome(p, TRUE, None)
    ELSE Outcome(p, FALSE, Some(At(p.component_list, At(p.entity_indices, entity_id))))

\* Pool::has_component: self.entity_indices.get(entityId).is_none()
has_component(p, entityId) == ~InBounds(p.entity_indices, entityId)

\* Pool::components: the dense layers as (handle, component) pairs
components(p) ==
    {<<p.entity_list[j], p.component_list[j]>> :
        j \in 1..(IF Len(p.entity_list) <= Len(p.component_list)
                  THEN Len(p.entity_list) ELSE Len(p.component_list))}

\* ---------------------------------------------------------- EntityStore
\* An Option<&Pool<T>>: <<>> for None, <<p>> for Some(p).
\* EntityStore::new(): no pool registered for any type, max_entity 0, empty pool_refs
EntityStoreNew == [store |-> [A |-> <<>>, B |-> <<>>], max_entity |-> 0, pool_refs |-> <<>>]

\* The outcome of a call on a store: the store afterwards, whether the call
\* panicked, and the returned value (None where there is none).
StoreOutcome(es, pan, r) == [store |-> es, panic |-> pan, ret |-> r]

\* EntityStore::get: the pool registered for type t, if any
EntityStore_get(es, t) == es.store[t]

\* EntityStore::new_component without the reserve_up_to(self.max_entity)
EntityStore_new_component_unsized(es, t) ==
    StoreOutcome([es EXCEPT !.store[t] = <<PoolNew>>], FALSE, None)

\* EntityStore::new_component: a fresh pool sized from max_entity replaces
\* whatever the AnyMap held for the type; pool_refs is not touched
EntityStore_new_component(es, t) ==
    StoreOutcome([es EXCEPT !.store[t] = <<reserve_up_to(PoolNew, es.max_entity).pool>>],
                 FALSE, None)

\* EntityStore::reserve_up_to assigning max_entity without the comparison
EntityStore_reserve_up_to_assigns(es, entityId) ==
    StoreOutcome([es EXCEPT !.max_entity = entityId], FALSE, None)

\* EntityStore::reserve_up_to
EntityStore_reserve_up_to(es, entityId) ==
    IF es.max_entity >= entityId
    THEN StoreOutcome(es, FALSE, None)
    ELSE StoreOutcome([es EXCEPT !.max_entity = entityId], FALSE, None)

\* EntityStore::add_component registering a pool for a type that has none
EntityStore_add_component_registers(es, t, entityId, component) ==
    LET p == IF es.store[t] = <<>> THEN PoolNew ELSE es.store[t][1]
        out == add_component(p, entityId, component)
    IN  StoreOutcome([es EXCEPT !.store[t] = <<out.pool>>], out.panic, None)

\* EntityStore::add_component
EntityStore_add_component(es, t, entityId, component) ==
    IF es.store[t] # <<>>
    THEN LET out == add_component(es.store[t][1], entityId, component)
         IN  StoreOutcome([es EXCEPT !.store[t] = <<out.pool>>], out.panic, None)
    ELSE StoreOutcome(es, FALSE, None)

\* EntityStore::remove_component
EntityStore_remove_component(es, t, entityId) ==
    IF es.store[t] # <<>>
    THEN LET out == remove(es.store[t][1], entityId)
         IN  StoreOutcome([es EXCEPT !.store[t] = <<out.pool>>], out.panic, None)
    ELSE StoreOutcome(es, FALSE, None)

\* EntityStore::has_component
EntityStore_has_component(es, t, entity_id) ==
    IF es.store[t] # <<>> THEN has_component(es.store[t][1], entity_id) ELSE FALSE

\* EntityStore::remove_entity: the body is empty
EntityStore_remove_entity(es, entity_id) == StoreOutcome(es, FALSE, None)

\* ----------------------------------------------------------------- state
VARIABLES
    pool,       \* the Pool<T> under test
    panicked,   \* a call has panicked; the run is over
    last,       \* the last mutating call (or the lookup that panicked): its name,
                \* arguments, the pool before it, its result, and whether it
                \* repeats an add_component on the same handle
    calls,      \* number of mutating calls made so far
    highest,    \* the highest handle referenced so far: returned by new_entity or
                \* passed to reserve_up_to or add_component (None: none yet)
    entity_store,   \* the EntityStore under test
    slast,          \* the last mutating call on the store: its name, arguments,
                    \* the store before it and its result
    max_reserved    \* the largest handle passed to the store's reserve_up_to so far

vars == <<pool, panicked, last, calls, highest, entity_store, slast, max_reserved>>
\* the variables of the pool under test
pool_vars == <<pool, last, highest>>
\* the variables of the store under test
store_vars == <<entity_store, slast, max_reserved>>

NoCall ==
    [op |-> "new", h |-> None, v |-> None, pre |-> PoolNew, ret |-> None, again |-> FALSE,
     ref |-> None]

NoStoreCall ==
    [op |-> "new", t |-> "-", h |-> None, v |-> None, pre |-> EntityStoreNew, ret |-> None]

Init ==
    /\ pool = PoolNew
    /\ panicked = FALSE
    /\ last = NoCall
    /\ calls = 0
    /\ highest = None
    /\ entity_store = EntityStoreNew
    /\ slast = NoStoreCall
    /\ max_reserved = 0

\* The record of a call; again: the call is an add_component that directly
\* follows a completed add_component on the same handle; ref: the highest
\* handle referenced before the call.
Record(name, h, v, out) ==
    [op |-> name, h |-> h, v |-> v, pre |-> pool, ret |-> out.ret,
     again |-> (name = "add_component" /\ last.op = "add_component" /\ last.h = h),
     ref |-> highest]

\* the larger of two numbers
Max(a, b) == IF a >= b THEN a ELSE b

\* the handle a call refers to: the one new_entity returns, the one passed
\* to reserve_up_to or add_component (None for the other calls)
Referenced(name, h, out) ==
    IF name = "new_entity" THEN out.ret
    ELSE IF name \in {"reserve_up_to", "add_component"} THEN h
    ELSE None

\* One mutating call (&mut self) on the pool: apply its outcome and record it.
Call(name, h, v, out) ==
    /\ ~panicked
    /\ calls < MaxCalls
    /\ calls' = calls + 1
    /\ pool' = out.pool
    /\ panicked' = out.panic
    /\ last' = Record(name, h, v, out)
    /\ highest' = Max(highest, Referenced(name, h, out))
    /\ UNCHANGED store_vars

\* One lookup (&self) on the pool: a lookup that completes leaves the program
\* as it was; one that panics ends the run and is recorded as the last call.
Query(name, h, out) ==
    /\ ~panicked
    /\ pool' = out.pool
    /\ panicked' = out.panic
    /\ last' = IF out.panic THEN Record(name, h, None, out) ELSE last
    /\ UNCHANGED <<calls, highest>>
    /\ UNCHANGED store_vars

\* pool.new_entity(); the sparse layer is kept within the handles in use
NewEntity ==
    /\ Len(pool.entity_indices) <= MaxHandle
    /\ Call("new_entity", None, None, new_entity(pool))

\* pool.reserve_up_to(h)
ReserveUpTo == \E h \in EntityId : Call("reserve_up_to", h, None, reserve_up_to(pool, h))

\* pool.add_component(h, v)
AddComponent ==
    \E h \in EntityId, v \in Component : Call("add_component", h, v, add_component(pool, h, v))

\* pool.remove(h)
Remove == \E h \in EntityId : Call("remove", h, None, remove(pool, h))

\* pool.get(h)
Get == \E h \in EntityId : Query("get", h, get(pool, h))

\* pool.get_mut(h)
GetMut == \E h \in EntityId : Query("get_mut", h, get_mut(pool, h))

\* pool.has_component(h)
HasComponent ==
    \E h \in EntityId :
        Query("has_component", h, Outcome(pool, FALSE, has_component(pool, h)))

Next ==
    \/ NewEntity
    \/ ReserveUpTo
    \/ AddComponent
    \/ Remove
    \/ Get
    \/ GetMut
    \/ HasComponent

Spec == Init /\ [][Next]_vars

\* One mutating call (&mut self, and remove_entity) on the store: apply its
\* outcome and record it.
StoreCall(name, t, h, v, out) ==
    /\ ~panicked
    /\ calls < MaxStoreCalls
    /\ calls' = calls + 1
    /\ entity_store' = out.store
    /\ panicked' = out.panic
    /\ slast' = [op |-> name, t |-> t, h |-> h, v |-> v, pre |-> entity_store, ret |-> out.ret]
    /\ max_reserved' = IF name = "reserve_up_to" THEN Max(max_reserved, h) ELSE max_reserved
    /\ UNCHANGED pool_vars

\* One lookup (&self) on the store: it leaves the program as it was.
StoreQuery(out) ==
    /\ ~panicked
    /\ entity_store' = out.store
    /\ panicked' = out.panic
    /\ UNCHANGED <<slast, max_reserved, calls>>
    /\ UNCHANGED pool_vars

\* store.new_component::<T>()
NewComponent ==
    \E t \in Types : StoreCall("new_component", t, None, None, EntityStore_new_component(entity_store, t))

\* store.reserve_up_to(h)
StoreReserveUpTo ==
    \E h \in EntityId :
        StoreCall("reserve_up_to", "-", h, None, EntityStore_reserve_up_to(entity_store, h))

\* store.add_component::<T>(h, v)
StoreAddComponent ==
    \E t \in Types, h \in EntityId, v \in Component :
        StoreCall("add_component", t, h, v, EntityStore_add_component(entity_store, t, h, v))

\* store.remove_component::<T>(h)
StoreRemoveComponent ==
    \E t \in Types, h \in EntityId :
        StoreCall("remove_component", t, h, None, EntityStore_remove_component(entity_store, t, h))

\* store.remove_entity(h)
StoreRemoveEntity ==
    \E h \in EntityId :
        StoreCall("remove_entity", "-", h, None, EntityStore_remove_entity(entity_store, h))

\* store.get::<T>()
StoreGet ==
    \E t \in Types :
        StoreQuery(StoreOutcome(entity_store, FALSE, EntityStore_get(entity_store, t)))

\* store.has_component::<T>(h)
StoreHasComponent ==
    \E t \in Types, h \in EntityId :
        StoreQuery(StoreOutcome(entity_store, FALSE, EntityStore_has_component(entity_store, t, h)))

StoreNext ==
    \/ NewComponent
    \/ StoreReserveUpTo
    \/ StoreAddComponent
    \/ StoreRemoveComponent
    \/ StoreRemoveEntity
    \/ StoreGet
    \/ StoreHasComponent

StoreSpec == Init /\ [][StoreNext]_vars

TypeOK ==
    /\ panicked \in BOOLEAN
    /\ calls \in 0..MaxCalls
    /\ \A j \in 1..Len(pool.entity_indices) :
          pool.entity_indices[j] \in Nat \cup {None}
    /\ Range(pool.entity_list) \subseteq EntityId
    /\ Range(pool.component_list) \subseteq Component

\* ---------------------------------------------------------------- claims
\* the last call was remove(h) on a handle that occurred in the dense handle layer
RemovedPresent == last.op = "remove" /\ last.h \in Range(last.pre.entity_list)
\* the last call was remove(h) on a handle that did not occur in the dense handle layer
RemovedAbsent == last.op = "remove" /\ last.h \notin Range(last.pre.entity_list)
\* the dense positions that hold handle h in pool p
PositionsOf(p, h) == {i \in 0..(Len(p.entity_list) - 1) : At(p.entity_list, i) = h}

\* C1: after every completed call, each dense position i is pointed back at
\* by the sparse entry of the handle stored there:
\* entity_indices[entity_list[i]] = Some(i).
C1_DenseToSparse ==
    ~panicked =>
        \A i \in 0..(Len(pool.entity_list) - 1) :
            /\ InBounds(pool.entity_indices, At(pool.entity_list, i))
            /\ At(pool.entity_indices, At(pool.entity_list, i)) = Some(i)

\* C2: after every completed call, every non-empty sparse entry
\* entity_indices[h] = Some(i) has i inside the dense handle layer and
\* entity_list[i] = h.
C2_SparseToDense ==
    ~panicked =>
        \A h \in 0..(Len(pool.entity_indices) - 1) :
            At(pool.entity_indices, h) # None =>
                /\ InBounds(pool.entity_list, At(pool.entity_indices, h))
                /\ At(pool.entity_list, At(pool.entity_indices, h)) = h

\* C3: after remove(h) on a handle that had a component, the sparse entry of
\* h is empty, h is not in the dense handle layer and get(h) is absent.
C3_RemoveClears ==
    RemovedPresent =>
        /\ ~panicked
        /\ InBounds(pool.entity_indices, last.h)
        /\ At(pool.entity_indices, last.h) = None
        /\ last.h \notin Range(pool.entity_list)
        /\ get(pool, last.h) = Outcome(pool, FALSE, None)

\* C4: remove(h) on a handle that does not occur in the dense handle layer
\* completes and leaves the three layers of the pool as they were.
C4_RemoveAbsentNoOp ==
    RemovedAbsent => (~panicked /\ pool = last.pre)

\* C5: add_component(h, v) completes and afterwards get(h) returns v.
C5_AddThenGet ==
    last.op = "add_component" =>
        (~panicked /\ get(pool, last.h) = Outcome(pool, FALSE, Some(last.v)))

\* C6: has_component(h) is true exactly when h has an entry in the dense
\* layers, for every handle inside or beyond the sparse layer.
C6_HasComponent ==
    ~panicked =>
        \A h \in EntityId : has_component(pool, h) <=> (h \in Range(pool.entity_list))

\* C7: after add_component(h, v1) directly followed by add_component(h, v2),
\* exactly one dense position holds h, its component is v2, and the second
\* call did not change len().
C7_Upsert ==
    (~panicked /\ last.op = "add_component" /\ last.again) =>
        /\ Cardinality(PositionsOf(pool, last.h)) = 1
        /\ \A i \in PositionsOf(pool, last.h) :
              InBounds(pool.component_list, i) /\ At(pool.component_list, i) = last.v
        /\ len(pool) = len(last.pre)

\* C8: remove(h) on a handle in the dense handle layer shrinks both dense
\* layers by one, leaves the (handle, component) pairs of the other handles
\* and drops those of h, and the handle now standing at a position that h
\* vacated has its sparse entry pointing at that position.
C8_SwapRemove ==
    RemovedPresent =>
        /\ ~panicked
        /\ Len(pool.entity_list) = Len(last.pre.entity_list) - 1
        /\ Len(pool.component_list) = Len(last.pre.component_list) - 1
        /\ components(pool) = {pr \in components(last.pre) : pr[1] # last.h}
        /\ \A i \in PositionsOf(last.pre, last.h) :
              InBounds(pool.entity_list, i) =>
                  /\ InBounds(pool.entity_indices, At(pool.entity_list, i))
                  /\ At(pool.entity_indices, At(pool.entity_list, i)) = Some(i)

\* C9: no call of get, get_mut, has_component, add_component or remove
\* panics, whatever the handle and whatever calls came before.
C9_Totality == ~panicked

\* C10: the dense handle layer and the dense component layer always have
\* the same length.
C10_DenseLengthsEqual == Len(pool.entity_list) = Len(pool.component_list)

\* a remove has just taken one of two dense entries away
C10_Witness ==
    /\ ~panicked
    /\ RemovedPresent
    /\ Len(last.pre.entity_list) = 2
    /\ Len(pool.entity_list) = 1

\* the (handle, component) pairs of pool p that belong to handles other than h
OtherComponents(p, h) == {pr \in components(p) : pr[1] # h}
\* the last call was reserve_up_to(h) or add_component(h, v) with h at or
\* beyond the sparse layer's length
Grew ==
    /\ last.op \in {"reserve_up_to", "add_component"}
    /\ last.h >= Len(last.pre.entity_indices)

\* C13: no call reduces the sparse layer's length, and after
\* reserve_up_to(n) the sparse layer has at least n + 1 slots.
C13_GrowthMonotone ==
    /\ Len(pool.entity_indices) >= Len(last.pre.entity_indices)
    /\ last.op = "reserve_up_to" => Len(pool.entity_indices) >= last.h + 1

\* reserve_up_to(n) has just been called on a sparse layer longer than n + 1
C13_Witness ==
    /\ last.op = "reserve_up_to"
    /\ last.h + 1 < Len(last.pre.entity_indices)
    /\ Len(pool.entity_list) >= 1

\* C15 (as claimed): the sparse layer's length never exceeds the highest
\* handle referenced so far, and every handle at or beyond the length is absent.
C15_SparseWithinHighest ==
    /\ highest # None => Len(pool.entity_indices) <= highest
    /\ \A h \in 0..(MaxHandle + 1) :
          h >= Len(pool.entity_indices) => get(pool, h) = Outcome(pool, FALSE, None)

\* C15 (amended): the sparse layer's length never exceeds the highest handle
\* referenced so far plus one (it is 0 while no handle has been referenced),
\* and every handle at or beyond the length is absent.
C15_SparseWithinHighestPlusOne ==
    /\ Len(pool.entity_indices) <= highest + 1
    /\ \A h \in 0..(MaxHandle + 1) :
          h >= Len(pool.entity_indices) => get(pool, h) = Outcome(pool, FALSE, None)

\* handles have been referenced, components added, and a handle in use by
\* the callers still lies beyond the sparse layer
C15_Witness ==
    /\ highest # None
    /\ Len(pool.entity_indices) = highest + 1
    /\ Len(pool.entity_indices) <= MaxHandle
    /\ Len(pool.entity_list) >= 1

\* C18: new_entity() grows the sparse layer by exactly one slot, returns the
\* previous length (greater than every handle referenced, so also than every
\* handle returned, before), the new slot is empty, and the dense layers and
\* the existing sparse entries are unchanged.
C18_NewEntity ==
    last.op = "new_entity" =>
        /\ ~panicked
        /\ Len(pool.entity_indices) = Len(last.pre.entity_indices) + 1
        /\ last.ret = Len(last.pre.entity_indices)
        /\ last.pre = PoolNew => last.ret = 0
        /\ last.ret > last.ref
        /\ At(pool.entity_indices, last.ret) = None
        /\ SubSeq(pool.entity_indices, 1, Len(last.pre.entity_indices)) = last.pre.entity_indices
        /\ pool.entity_list = last.pre.entity_list
        /\ pool.component_list = last.pre.component_list

\* new_entity() has just been called on a pool that already holds handles
\* and components
C18_Witness ==
    /\ last.op = "new_entity"
    /\ last.ret >= 1
    /\ last.ref >= 0
    /\ Len(last.pre.entity_list) >= 1

\* C19: reserve_up_to(h) and add_component(h, v) with h at or beyond the
\* sparse layer's length grow it to exactly h + 1 slots, the new slots other
\* than h's own are empty, and the existing sparse and dense entries are
\* unchanged; reserve_up_to(h) with h inside the sparse layer changes nothing.
C19_GrowExactly ==
    /\ Grew =>
          /\ ~panicked
          /\ Len(pool.entity_indices) = last.h + 1
          /\ \A k \in Len(last.pre.entity_indices)..(last.h - 1) :
                At(pool.entity_indices, k) = None
          /\ SubSeq(pool.entity_indices, 1, Len(last.pre.entity_indices))
                = last.pre.entity_indices
          /\ Len(pool.entity_list) >= Len(last.pre.entity_list)
          /\ SubSeq(pool.entity_list, 1, Len(last.pre.entity_list)) = last.pre.entity_list
          /\ Len(pool.component_list) >= Len(last.pre.component_list)
          /\ SubSeq(pool.component_list, 1, Len(last.pre.component_list))
                = last.pre.component_list
    /\ (last.op = "reserve_up_to" /\ last.h < Len(last.pre.entity_indices)) => pool = last.pre

\* add_component(h, v) has just grown a sparse layer by more than one slot
\* on a pool that already held a component
C19_Witness ==
    /\ Grew
    /\ last.op = "add_component"
    /\ last.h > Len(last.pre.entity_indices)
    /\ Len(last.pre.entity_list) >= 1

\* C20: add_component(h, v) and remove(h) leave the (handle, component)
\* pairs of every other handle as they were.
C20_Isolation ==
    (~panicked /\ last.op \in {"add_component", "remove"}) =>
        OtherComponents(pool, last.h) = OtherComponents(last.pre, last.h)

\* the types with a registered pool in store es
Registered(es) == {t \in Types : es.store[t] # <<>>}
\* the last store call was add_component or remove_component for a type
\* that had no registered pool
UnregisteredCall ==
    /\ slast.op \in {"add_component", "remove_component"}
    /\ slast.t \notin Registered(slast.pre)

\* the last store call was remove_entity(h) on a handle that had a component
\* in some registered pool
RemovedEntityWithComponent ==
    /\ slast.op = "remove_entity"
    /\ \E t \in Registered(slast.pre) : slast.h \in Range(slast.pre.store[t][1].entity_list)

\* C11: after remove_entity(h) on a handle with components, no registered
\* pool holds a dense entry for h, and has_component::<T>(h) is false for
\* every registered T.
C11_RemoveEntityBroadcast ==
    RemovedEntityWithComponent =>
        \A t \in Registered(entity_store) :
            /\ slast.h \notin Range(entity_store.store[t][1].entity_list)
            /\ ~EntityStore_has_component(entity_store, t, slast.h)

\* C12: add_component::<C>(h, v) and remove_component::<C>(h) for a type C
\* without a registered pool do not panic and leave the whole store as it
\* was; get::<C>() stays absent and has_component::<C>(h) is false.
C12_UnregisteredTypeSafe ==
    UnregisteredCall =>
        /\ ~panicked
        /\ entity_store = slast.pre
        /\ EntityStore_get(entity_store, slast.t) = <<>>
        /\ ~EntityStore_has_component(entity_store, slast.t, slast.h)

\* add_component for an unregistered type has just been called on a store
\* whose other type holds a component
C12_Witness ==
    /\ UnregisteredCall
    /\ slast.op = "add_component"
    /\ \E t \in Registered(entity_store) : Len(entity_store.store[t][1].entity_list) >= 1

\* C14: the store's reserve_up_to(h) sets max_entity to max(max_entity, h);
\* max_entity never decreases, always equals the largest handle passed to
\* reserve_up_to so far (0 initially), and reserve_up_to leaves the
\* registered pools and the broadcast list as they were.
C14_StoreReserve ==
    /\ entity_store.max_entity = max_reserved
    /\ entity_store.max_entity >= slast.pre.max_entity
    /\ slast.op = "reserve_up_to" =>
          /\ ~panicked
          /\ entity_store.max_entity = Max(slast.pre.max_entity, slast.h)
          /\ entity_store.store = slast.pre.store
          /\ entity_store.pool_refs = slast.pre.pool_refs

\* reserve_up_to has just been called with a handle below the high-water
\* mark on a store with a registered pool
C14_Witness ==
    /\ slast.op = "reserve_up_to"
    /\ slast.h < slast.pre.max_entity
    /\ Registered(entity_store) # {}

\* C16: after new_component::<T>() on a store with high-water mark m,
\* get::<T>() is present and the pool of T has empty dense layers and
\* m + 1 empty sparse slots; the store's reserve_up_to leaves the sparse
\* length of the pools registered before it as it was.
C16_NewComponentFresh ==
    /\ slast.op = "new_component" =>
          /\ ~panicked
          /\ EntityStore_get(entity_store, slast.t) # <<>>
          /\ LET p == EntityStore_get(entity_store, slast.t)[1]
             IN  /\ Len(p.entity_list) = 0
                 /\ Len(p.component_list) = 0
                 /\ Len(p.entity_indices) = slast.pre.max_entity + 1
                 /\ \A k \in 0..slast.pre.max_entity : At(p.entity_indices, k) = None
    /\ slast.op = "reserve_up_to" =>
          \A t \in Registered(slast.pre) :
              /\ t \in Registered(entity_store)
              /\ Len(entity_store.store[t][1].entity_indices)
                    = Len(slast.pre.store[t][1].entity_indices)

\* new_component has just registered a second type after the high-water
\* mark was raised, so the two pools have different sparse lengths
C16_Witness ==
    /\ slast.op = "new_component"
    /\ slast.pre.max_entity >= 1
    /\ \E t \in Registered(entity_store) :
          Len(entity_store.store[t][1].entity_indices) < slast.pre.max_entity + 1

\* C17: every new_component::<T>() appends one entry to the broadcast list
\* (pool_refs), so registering k distinct types leaves k entries.
C17_BroadcastListGrows ==
    /\ slast.op = "new_component" =>
          Len(entity_store.pool_refs) = Len(slast.pre.pool_refs) + 1
    /\ Len(entity_store.pool_refs) >= Cardinality(Registered(entity_store))
====
